---- MODULE Spec2Model ----
(***************************************************************************)
(* A model of extract.py, the batch unpacker of game archives: the         *)
(* filename sanitizer (clean_filename), the backend chain                  *)
(* (get_archive_extractor, extract_archive), the locator                   *)
(* (find_innermost_file) and the two per-item loops of main followed by    *)
(* the deletion prompt.                                                    *)
(*                                                                         *)
(* A filename is a sequence of characters; a character is a string token   *)
(* ("a", " ", "TAB", ...).  The output directory is a function from the    *)
(* names of its entries to files and directories.                          *)
(***************************************************************************)
EXTENDS Integers, Sequences, FiniteSets, TLC

VARIABLES
    mode,            \* which part of the program this behaviour exercises
    \* ---- clean_filename called on its own
    cf_filename,     \* the argument filename
    cf_choice,       \* the menu choice 1..4 that fixes the policy
    cf_result,       \* what clean_filename returned
    cf_pc,           \* "call" before clean_filename runs, "returned" after
    \* ---- main
    choice,          \* filename format chosen at the prompt (lines 177-196)
    platform,        \* sys.platform
    archive_files,   \* the list built at lines 220-223
    indir,           \* names of the archives present in xbla_dir
    outdir,          \* entries of xbla_unpacked_dir
    phase,           \* "bar", "fallback", "prompt", "deleting", "exit", "crashed"
    idx,             \* index in archive_files of the item being processed
    pc,              \* position inside the loop body
    game_name,       \* local of main
    innermost_file,  \* local of main
    extractors,      \* local of extract_archive
    probed,          \* how each availability probe of the current call ended
    ex_i,            \* position of the for loop of extract_archive
    calls,           \* backends invoked by the current extract_archive call
    ex_ret,          \* how the last extract_archive call ended
    steps,           \* outcome of each step of the item being processed
    verdict,         \* how each item of the current loop has fared so far
    fatal_seen,      \* the RuntimeError of line 70 has been raised
    delete_choice,   \* answer to the prompt of line 343
    \* ---- find_innermost_file called on its own
    walked,          \* the files of the tree in the order os.walk yields them
    \* ---- the two loops run on the same item
    bar_result       \* what the progress-bar loop left for the item

cleanVars == <<cf_filename, cf_choice, cf_result, cf_pc>>
mainVars == <<choice, platform, archive_files, indir, outdir,
              phase, idx, pc, game_name, innermost_file, extractors, probed,
              ex_i, calls, ex_ret, steps, verdict, fatal_seen, delete_choice, walked>>
vars == <<mode, cleanVars, mainVars, bar_result>>

\* the None that find_innermost_file returns for a tree without files
None == [src |-> <<>>, by |-> "None", dirs |-> -1]

(***************************************************************************)
(* Bounds of the model.                                                    *)
(***************************************************************************)
\* longest stem of a filename handed to clean_filename on its own
MaxLen == 3
\* most archives in one batch
MaxItems == 2
\* most files in a tree handed to find_innermost_file on its own
MaxWalk == 4
\* most directories between the root of such a tree and a file
MaxLevels == 3

(***************************************************************************)
(* Characters.                                                             *)
(***************************************************************************)
\* the characters of the model that \w matches in a Python 3 str pattern
WordChars == {"a", "b", "e", "i", "m", "p", "r", "t", "z", "A", "R", "Z", "7", "_"}
\* the characters of the model that \s matches
SpaceChars == {" ", "TAB", "LF", "CR"}
\* the characters of the model below U+0020
ControlChars == {"TAB", "LF", "CR", "NUL"}
PathSeparators == {"/", "\\"}
\* a lone surrogate, what os.listdir gives for an undecodable byte
Surrogate == "SUR"

Lower(c) ==
    CASE c = "A" -> "a"
      [] c = "R" -> "r"
      [] c = "Z" -> "z"
      [] OTHER -> c

LowerStr(s) == [k \in 1..Len(s) |-> Lower(s[k])]

SUPPORTED_EXTENSIONS == << <<".", "r", "a", "r">>, <<".", "z", "i", "p">>, <<".", "7", "z">> >>

EndsWith(s, suf) ==
    /\ Len(s) >= Len(suf)
    /\ SubSeq(s, Len(s) - Len(suf) + 1, Len(s)) = suf

\* lines 131-134: strip the first supported extension that matches
StripExtension(filename) ==
    LET hits == {k \in 1..Len(SUPPORTED_EXTENSIONS) :
                    EndsWith(LowerStr(filename), SUPPORTED_EXTENSIONS[k])}
    IN  IF hits = {} THEN filename
        ELSE LET k == CHOOSE x \in hits : \A y \in hits : x <= y
             IN  SubSeq(filename, 1, Len(filename) - Len(SUPPORTED_EXTENSIONS[k]))

\* str.replace(old, new) for a one-character old
RECURSIVE StrReplace(_, _, _)
StrReplace(s, old, new) ==
    IF s = <<>> THEN <<>>
    ELSE (IF Head(s) = old THEN new ELSE <<Head(s)>>) \o StrReplace(Tail(s), old, new)

\* re.sub('[^<allowed>]+', repl, s): every maximal run of characters outside
\* allowed becomes one repl
RECURSIVE SubDisallowedRuns(_, _, _)
SubDisallowedRuns(s, allowed, repl) ==
    IF s = <<>> THEN <<>>
    ELSE IF Head(s) \in allowed
         THEN <<Head(s)>> \o SubDisallowedRuns(Tail(s), allowed, repl)
         ELSE IF Len(s) >= 2 /\ s[2] \notin allowed
              THEN SubDisallowedRuns(Tail(s), allowed, repl)
              ELSE repl \o SubDisallowedRuns(Tail(s), allowed, repl)

\* re.sub('c{2,}', c, s): every run of two or more c becomes one c
RECURSIVE CollapseRuns(_, _)
CollapseRuns(s, c) ==
    IF s = <<>> THEN <<>>
    ELSE IF Head(s) = c /\ Len(s) >= 2 /\ s[2] = c
         THEN CollapseRuns(Tail(s), c)
         ELSE <<Head(s)>> \o CollapseRuns(Tail(s), c)

\* str.strip(chars)
RECURSIVE LStrip(_, _)
LStrip(s, chars) ==
    IF s # <<>> /\ Head(s) \in chars THEN LStrip(Tail(s), chars) ELSE s

RECURSIVE RStrip(_, _)
RStrip(s, chars) ==
    IF s # <<>> /\ s[Len(s)] \in chars THEN RStrip(SubSeq(s, 1, Len(s) - 1), chars) ELSE s

Strip(s, chars) == RStrip(LStrip(s, chars), chars)

\* the punctuation both patterns allow: - ( ) [ ] { }
AllowedPunct == {"-", "(", ")", "[", "]", "{", "}"}

\* line 147: [^\w\-\(\)\[\]\{\}\s]
AllowedWhenReplacing == WordChars \cup AllowedPunct \cup SpaceChars
\* line 152: [^\w \-\(\)\[\]\{\}]
AllowedWhenKeeping == WordChars \cup AllowedPunct \cup {" "}

\* lines 177-194: the menu choice fixes replace_spaces and space_replacement
ReplaceSpaces(c) == c # 1
SpaceReplacement(c) ==
    CASE c = 1 -> <<" ">>
      [] c = 2 -> <<"_">>
      [] c = 3 -> <<"-">>
      [] c = 4 -> <<>>

\* lines 144-152
SubstituteSpecial(s, replace_spaces, space_replacement) ==
    IF replace_spaces
    THEN StrReplace(SubDisallowedRuns(s, AllowedWhenReplacing, space_replacement),
                    " ", space_replacement)
    ELSE SubDisallowedRuns(s, AllowedWhenKeeping, <<>>)

\* clean_filename without the collapse of lines 155-156
clean_filename_NoCollapse(filename, replace_spaces, space_replacement) ==
    LET s1 == StripExtension(filename)
        s2 == IF replace_spaces THEN StrReplace(s1, " ", space_replacement) ELSE s1
        s3 == SubstituteSpecial(s2, replace_spaces, space_replacement)
    IN  Strip(s3, {".", "-", "_", " "})

\* lines 119-161
clean_filename(filename, replace_spaces, space_replacement) ==
    LET s1 == StripExtension(filename)
        s2 == IF replace_spaces THEN StrReplace(s1, " ", space_replacement) ELSE s1
        s3 == SubstituteSpecial(s2, replace_spaces, space_replacement)
        s4 == IF space_replacement # <<>>
              THEN CollapseRuns(s3, space_replacement[1])
              ELSE s3
    IN  Strip(s4, {".", "-", "_", " "})

Sanitize(filename, c) == clean_filename(filename, ReplaceSpaces(c), SpaceReplacement(c))


(***************************************************************************)
(* Files and directories.                                                  *)
(***************************************************************************)
TEMP == <<"_", "t", "e", "m", "p">>
MARKER == <<".", "x", "b", "o", "x", "3", "6", "0">>

\* A file of an extracted tree: the archive it came from, the backend that
\* wrote it and the number of directories between the extraction root and
\* the file.
FileRec(src, by, dirs) == [src |-> src, by |-> by, dirs |-> dirs]

FileOf(f) == [kind |-> "file", content |-> <<"payload", f.src, f.by>>, files |-> {}]
TextOf(t) == [kind |-> "file", content |-> <<"text", t>>, files |-> {}]
DirOf(fs) == [kind |-> "dir", content |-> <<>>, files |-> fs]

Put(f, k, v) == [x \in (DOMAIN f) \cup {k} |-> IF x = k THEN v ELSE f[x]]
Drop(f, k) == [x \in (DOMAIN f) \ {k} |-> f[x]]
NoEntries == [x \in {} |-> DirOf({})]

Exists(fs, p) == p \in DOMAIN fs
IsDir(fs, p) == Exists(fs, p) /\ fs[p].kind = "dir"
IsFile(fs, p) == Exists(fs, p) /\ fs[p].kind = "file"

Range(s) == {s[k] : k \in 1..Len(s)}

\* the basename of the payload an archive of the model holds
PayloadName == <<"p">>

(***************************************************************************)
(* The archives a batch is drawn from.                                     *)
(***************************************************************************)
A_rar == <<"a", ".", "r", "a", "r">>
A_zip == <<"a", ".", "z", "i", "p">>
ATemp_zip == <<"a", "_", "t", "e", "m", "p", ".", "z", "i", "p">>
Under_zip == <<"_", ".", "z", "i", "p">>
Sur_rar == <<"b", Surrogate, ".", "r", "a", "r">>

Catalogue == {A_rar, A_zip, ATemp_zip, Under_zip, Sur_rar}

\* print(text) raises UnicodeEncodeError when sys.stdout cannot encode text
Encodable(name) == Surrogate \notin Range(name)

\* lines 220-223: the listing filtered once per extension, in the order of
\* SUPPORTED_EXTENSIONS
RECURSIVE Filter(_, _)
Filter(listing, ext) ==
    IF listing = <<>> THEN <<>>
    ELSE (IF EndsWith(LowerStr(Head(listing)), ext) THEN <<Head(listing)>> ELSE <<>>)
         \o Filter(Tail(listing), ext)

Enumerate(listing) ==
    Filter(listing, SUPPORTED_EXTENSIONS[1])
    \o Filter(listing, SUPPORTED_EXTENSIONS[2])
    \o Filter(listing, SUPPORTED_EXTENSIONS[3])

\* what os.listdir may return: the names of the directory in any order
Listings ==
    {l \in UNION {[1..n -> Catalogue] : n \in 1..MaxItems} :
        \A i, j \in 1..Len(l) : i # j => l[i] # l[j]}


(***************************************************************************)
(* The backend chain.                                                      *)
(***************************************************************************)
\* how running `tool --version` can end (lines 30-32)
ProbeOutcomes == {"ok", "nonzero", "notfound", "timeout", "oserror"}

\* no probe has run yet
NotProbed == [t \in {"unrar", "7z", "unzip"} |-> "-"]

\* The hosts of the model.  A call of extract_archive on its own runs on any
\* host; a batch runs on a host where 7z is the only backend that may be
\* installed, so that the state of the output directory stays small.
HostProbes(m) ==
    IF m = "extract" THEN [{"unrar", "7z", "unzip"} -> ProbeOutcomes]
    ELSE {p \in [{"unrar", "7z", "unzip"} -> {"ok", "notfound"}] :
             p["unrar"] = "notfound" /\ p["unzip"] = "notfound"}
HostImports(m) == IF m = "extract" THEN BOOLEAN ELSE {FALSE}

\* lines 27-35: run() without check=True returns whatever the exit code;
\* TimeoutExpired and FileNotFoundError give False, any other exception
\* is not caught
is_tool_available(outcome) ==
    CASE outcome \in {"ok", "nonzero"} -> "True"
      [] outcome \in {"notfound", "timeout"} -> "False"
      [] OTHER -> "raise"

\* the tools each platform probes, in the order of lines 42-54
ProbedTools(plat) ==
    IF plat = "win32" THEN <<"unrar", "7z">> ELSE <<"unrar", "7z", "unzip">>

RECURSIVE AppendAvailable(_, _)
AppendAvailable(tools, probe) ==
    IF tools = <<>> THEN <<>>
    ELSE (IF is_tool_available(probe[Head(tools)]) = "True" THEN <<Head(tools)>> ELSE <<>>)
         \o AppendAvailable(Tail(tools), probe)

\* lines 37-63
get_archive_extractor(plat, probe, importable) ==
    AppendAvailable(ProbedTools(plat), probe)
    \o (IF importable THEN <<"patoolib">> ELSE <<>>)

\* a probe raises out of get_archive_extractor
ProbeRaises(plat, probe) ==
    \E k \in 1..Len(ProbedTools(plat)) :
        is_tool_available(probe[ProbedTools(plat)[k]]) = "raise"

\* how one invocation of a backend can end (lines 80, 91): the library call
\* has no timeout
BackendOutcomes(name) ==
    IF name = "patoolib"
    THEN {"ok", "exception", "hang"}
    ELSE {"ok", "nonzero", "exception", "timeout"}

\* AfterBackend without the return of line 93: a command-line backend that
\* exits with 0 is followed by the next backend
AfterBackend_NoReturn(name, outcome) ==
    CASE outcome = "ok" /\ name = "patoolib" -> "return_true"
      [] outcome = "hang" -> "blocked"
      [] OTHER -> "next"

\* AfterBackend with the try of line 74 around the library call only: what
\* a command-line backend raises leaves extract_archive
AfterBackend_Propagates(name, outcome) ==
    CASE outcome = "ok" -> "return_true"
      [] outcome = "hang" -> "blocked"
      [] outcome = "nonzero" -> "next"
      [] name = "patoolib" -> "next"
      [] OTHER -> "propagate"

\* lines 75-98: what the loop body does with the outcome of the backend
AfterBackend(name, outcome) ==
    CASE outcome = "ok" -> "return_true"
      [] outcome = "hang" -> "blocked"
      [] outcome = "nonzero" -> "next"
      [] OTHER -> "next"

\* the numbers of directories a file may lie under
Dirs == {0, 1}

\* what an invocation may leave in the destination: a backend that succeeds
\* has written the payload (or nothing, for an empty archive); one that
\* fails may leave a partial file
BackendWrites(archive, name, outcome) ==
    IF outcome = "hang" THEN {{}}
    ELSE {{}} \cup {{FileRec(archive, name, d)} : d \in Dirs}

(***************************************************************************)
(* The locator.                                                            *)
(***************************************************************************)
\* line 111 counting no separator: every file at the same depth
PathDepth_Flat(f) == 1

\* line 111: the separators of file_path[len(directory):]
PathDepth(f) == f.dirs + 1

\* lines 104-117, over the files in the order os.walk yields them
RECURSIVE Deepest(_, _, _)
Deepest(walk, deepest_file, max_depth) ==
    IF walk = <<>> THEN deepest_file
    ELSE IF PathDepth(Head(walk)) > max_depth
         THEN Deepest(Tail(walk), Head(walk), PathDepth(Head(walk)))
         ELSE Deepest(Tail(walk), deepest_file, max_depth)

find_innermost_file(walk) == Deepest(walk, None, -1)

\* the files of a set in some fixed order
RECURSIVE SeqOf(_)
SeqOf(S) ==
    IF S = {} THEN <<>>
    ELSE LET x == CHOOSE y \in S : TRUE IN <<x>> \o SeqOf(S \ {x})

\* one directory level of a listing in which file `first` leads its level
Level(files, first, d) ==
    LET here == {f \in files : f.dirs = d}
    IN  IF first \in here THEN <<first>> \o SeqOf(here \ {first}) ELSE SeqOf(here)

\* Orders in which os.walk may yield the files of a tree: top-down, a
\* directory's files before those of its subdirectory, the files of one
\* directory in the order the listing gives.  One order for each file that
\* the listing may put first in its directory.
WalkOrders(files) ==
    IF files = {} THEN {<<>>}
    ELSE {Level(files, first, 0) \o Level(files, first, 1) : first \in files}

(***************************************************************************)
(* Filesystem calls of the loop body.                                      *)
(***************************************************************************)
\* where a file moved or copied into a directory lands
Landed(f) == FileRec(f.src, f.by, 0)

\* shutil.move into a directory raises when the name is taken there;
\* os.path.join(xbla_unpacked_dir, "") is the output directory itself
MoveCollides(fs, f, dst) ==
    IF dst = <<>> THEN Exists(fs, PayloadName)
    ELSE IsDir(fs, dst) /\ Landed(f) \in fs[dst].files

\* the destination after shutil.move or shutil.copy2 wrote f to dst: into
\* dst when dst is a directory, else as the file dst, replacing it
Place(fs, f, dst) ==
    IF dst = <<>> THEN Put(fs, PayloadName, FileOf(f))
    ELSE IF IsDir(fs, dst) THEN Put(fs, dst, DirOf(fs[dst].files \cup {Landed(f)}))
    ELSE Put(fs, dst, FileOf(f))

\* os.remove of a file of the extraction directory
TakeOut(fs, dir, f) == Put(fs, dir, DirOf(fs[dir].files \ {f}))

\* shutil.move(innermost_file, final_file_path), lines 257 and 304
MoveFile(fs, dir, f, dst) == Place(TakeOut(fs, dir, f), f, dst)

\* shutil.copy2(innermost_file, final_file_path), line 310
CopyFile(fs, f, dst) == Place(fs, f, dst)

\* shutil.rmtree(game_dir), lines 260 and 319
RemoveTree(fs, dir) == Drop(fs, dir)

\* open(final_file_path + ".xbox360", "w").write(game_name), lines 263-264
\* and 326-327
WriteMarkerFile(fs, name) == Put(fs, name \o MARKER, TextOf(name))

(***************************************************************************)
(* main, from the enumeration of the archives on.                          *)
(***************************************************************************)
NoSteps == [makedirs |-> "-", extract |-> "-", locate |-> "-", move |-> "-",
            copy |-> "-", remove |-> "-", rmtree |-> "-", marker |-> "-"]

\* the progress-bar loop has not yet run on the item
NoResult == [steps |-> NoSteps, outdir |-> NoEntries, verdict |-> "pending"]

Looping == phase \in {"bar", "fallback"}
Archive == archive_files[idx]
game_dir == game_name \o TEMP
final_file_path == game_name

CleanIdle ==
    /\ cf_filename = <<>>
    /\ cf_choice = 2
    /\ cf_result = <<>>
    /\ cf_pc = "idle"

Init ==
    /\ mode = "main"
    /\ CleanIdle
    /\ choice \in 1..4
    /\ platform = "linux"
    /\ \E l \in Listings :
          /\ archive_files = Enumerate(l)
          /\ indir = Range(l)
    /\ outdir = NoEntries
    /\ phase = "bar"
    /\ idx = 1
    /\ pc = "enter"
    /\ game_name = <<>>
    /\ innermost_file = None
    /\ extractors = <<>>
    /\ probed = NotProbed
    /\ ex_i = 0
    /\ calls = <<>>
    /\ ex_ret = "none"
    /\ steps = NoSteps
    /\ verdict = [i \in 1..Len(archive_files) |-> "pending"]
    /\ fatal_seen = FALSE
    /\ delete_choice = ""
    /\ walked = <<>>
    /\ bar_result = NoResult

inputVars == <<mode, cleanVars, choice, platform, archive_files, walked, bar_result>>
extractVars == <<extractors, probed, ex_i, calls, ex_ret>>

\* line 274-277: the UnicodeEncodeError leaves the progress-bar loop and the
\* fallback loop starts over from the first archive
StartFallback ==
    /\ phase' = "fallback"
    /\ idx' = 1
    /\ pc' = "start"
    /\ verdict' = [i \in 1..Len(archive_files) |-> "pending"]
    /\ steps' = NoSteps
    /\ game_name' = <<>>
    /\ innermost_file' = None
    /\ extractors' = <<>>
    /\ probed' = NotProbed
    /\ ex_i' = 0
    /\ calls' = <<>>
    /\ ex_ret' = "none"

\* line 234: alive_bar starts
EnterBar ==
    /\ phase = "bar" /\ pc = "enter"
    /\ pc' = "start"
    /\ UNCHANGED <<inputVars, indir, outdir, phase, idx, game_name, innermost_file,
                   extractVars, steps, verdict, fatal_seen, delete_choice>>

\* line 234: alive_bar raises UnicodeEncodeError.  alive_bar is a library;
\* the model lets it raise where the bar is set up, before the first item.
EnterBarRaises ==
    /\ phase = "bar" /\ pc = "enter"
    /\ StartFallback
    /\ UNCHANGED <<inputVars, indir, outdir, fatal_seen, delete_choice>>

\* lines 236-242 and 278-284: the names of the item, then the first print
StartItem ==
    /\ Looping /\ pc = "start"
    /\ game_name' = Sanitize(Archive, choice)
    /\ verdict' = [verdict EXCEPT ![idx] = "started"]
    /\ steps' = NoSteps
    /\ innermost_file' = None
    /\ extractors' = <<>>
    /\ probed' = NotProbed
    /\ ex_i' = 0
    /\ calls' = <<>>
    /\ ex_ret' = "none"
    /\ pc' = IF Encodable(Archive) THEN "makedirs" ELSE "handler"
    /\ UNCHANGED <<inputVars, indir, outdir, phase, idx, fatal_seen, delete_choice>>

\* lines 245 and 287: os.makedirs(game_dir, exist_ok=True)
MakeDirs ==
    /\ Looping /\ pc = "makedirs"
    /\ \/ /\ ~IsFile(outdir, game_dir)
          /\ outdir' = IF Exists(outdir, game_dir) THEN outdir
                       ELSE Put(outdir, game_dir, DirOf({}))
          /\ steps' = [steps EXCEPT !.makedirs = "ok"]
          /\ pc' = "resolve"
       \/ /\ ~IsDir(outdir, game_dir)
          /\ outdir' = outdir
          /\ steps' = [steps EXCEPT !.makedirs = "fail"]
          /\ pc' = "handler"
    /\ UNCHANGED <<inputVars, indir, phase, idx, game_name, innermost_file,
                   extractVars, verdict, fatal_seen, delete_choice>>


\* where control goes when extract_archive returns or raises: in main, to
\* line 250 (292), to the warning of line 268 (334) and the end of the body,
\* or to the handler of line 270 (336)
ReturnedTrue == IF mode = "extract" THEN "returned" ELSE "find"
\* line 248 (290) without its test: the result of extract_archive is ignored
ReturnedFalse_Ignored == IF mode = "extract" THEN "returned" ELSE "find"
ReturnedFalse == IF mode = "extract" THEN "returned" ELSE "end"
Raised == IF mode = "extract" THEN "returned" ELSE "handler"

\* lines 67-70: the backends are resolved anew for every archive
Resolve ==
    /\ pc = "resolve"
    /\ \E probe \in HostProbes(mode), importable \in HostImports(mode) :
          /\ IF ProbeRaises(platform, probe)
             THEN /\ extractors' = <<>>
                  /\ ex_ret' = "OSError"
                  /\ fatal_seen' = fatal_seen
                  /\ steps' = [steps EXCEPT !.extract = "fail"]
                  /\ pc' = Raised
             ELSE LET found == get_archive_extractor(platform, probe, importable)
                  IN  /\ extractors' = found
                      /\ ex_ret' = IF found = <<>> THEN "RuntimeError" ELSE "none"
                      /\ fatal_seen' = (fatal_seen \/ found = <<>>)
                      /\ steps' = IF found = <<>> THEN [steps EXCEPT !.extract = "fail"]
                                  ELSE steps
                      /\ pc' = IF found = <<>> THEN Raised ELSE "backend"
          /\ probed' = probe
    /\ ex_i' = 1
    /\ calls' = <<>>
    /\ UNCHANGED <<inputVars, indir, outdir, phase, idx, game_name, innermost_file,
                   verdict, delete_choice>>

\* lines 73-100: one turn of the for loop of extract_archive
InvokeBackend ==
    /\ pc = "backend"
    /\ LET name == extractors[ex_i]
       IN  \E outcome \in BackendOutcomes(name) :
           \E wrote \in BackendWrites(Archive, name, outcome) :
              LET after == AfterBackend(name, outcome)
                  last == ex_i = Len(extractors)
              IN  /\ outdir' = Put(outdir, game_dir,
                                   DirOf(outdir[game_dir].files \cup wrote))
                  /\ calls' = Append(calls, [name |-> name, outcome |-> outcome])
                  /\ ex_i' = IF after = "next" /\ ~last THEN ex_i + 1 ELSE ex_i
                  /\ ex_ret' = CASE after = "return_true" -> "True"
                                 [] after = "next" /\ last -> "False"
                                 [] after = "propagate" -> "Exception"
                                 [] OTHER -> "none"
                  /\ steps' = CASE after = "return_true" -> [steps EXCEPT !.extract = "ok"]
                                [] after = "next" /\ ~last -> steps
                                [] after = "blocked" -> steps
                                [] OTHER -> [steps EXCEPT !.extract = "fail"]
                  /\ pc' = CASE after = "return_true" -> ReturnedTrue
                             [] after = "next" /\ ~last -> "backend"
                             [] after = "next" /\ last -> ReturnedFalse
                             [] after = "blocked" -> "hung"
                             [] OTHER -> Raised
    /\ UNCHANGED <<inputVars, indir, phase, idx, game_name, innermost_file,
                   extractors, probed, verdict, fatal_seen, delete_choice>>

\* lines 250-252 and 292-294
Find ==
    /\ Looping /\ pc = "find"
    /\ \E walk \in WalkOrders(outdir[game_dir].files) :
          LET found == find_innermost_file(walk)
          IN  /\ innermost_file' = found
              /\ steps' = [steps EXCEPT !.locate = IF found = None THEN "fail" ELSE "ok"]
              /\ pc' = IF found = None THEN "end" ELSE "move"
    /\ UNCHANGED <<inputVars, indir, outdir, phase, idx, game_name,
                   extractVars, verdict, fatal_seen, delete_choice>>

\* lines 257 and 304: shutil.move; in the fallback loop a failure is caught
\* at line 306 and the copy is tried
Move ==
    /\ Looping /\ pc = "move"
    /\ \/ /\ ~MoveCollides(outdir, innermost_file, final_file_path)
          /\ outdir' = MoveFile(outdir, game_dir, innermost_file, final_file_path)
          /\ steps' = [steps EXCEPT !.move = "ok"]
          /\ pc' = "rmtree"
       \/ /\ outdir' = outdir
          /\ steps' = [steps EXCEPT !.move = "fail"]
          /\ pc' = IF phase = "bar" THEN "handler" ELSE "copy"
    /\ UNCHANGED <<inputVars, indir, phase, idx, game_name, innermost_file,
                   extractVars, verdict, fatal_seen, delete_choice>>

\* line 310, fallback loop only: shutil.copy2; a failure is caught at line
\* 313 and the loop continues with the next archive
Copy ==
    /\ phase = "fallback" /\ pc = "copy"
    /\ \/ /\ outdir' = CopyFile(outdir, innermost_file, final_file_path)
          /\ steps' = [steps EXCEPT !.copy = "ok"]
          /\ pc' = "remove"
       \/ /\ outdir' = outdir
          /\ steps' = [steps EXCEPT !.copy = "fail"]
          /\ pc' = "end"
    /\ UNCHANGED <<inputVars, indir, phase, idx, game_name, innermost_file,
                   extractVars, verdict, fatal_seen, delete_choice>>

\* line 311, fallback loop only: os.remove(innermost_file), inside the same
\* try as the copy
Remove ==
    /\ phase = "fallback" /\ pc = "remove"
    /\ \/ /\ outdir' = TakeOut(outdir, game_dir, innermost_file)
          /\ steps' = [steps EXCEPT !.remove = "ok"]
          /\ pc' = "rmtree"
       \/ /\ outdir' = outdir
          /\ steps' = [steps EXCEPT !.remove = "fail"]
          /\ pc' = "end"
    /\ UNCHANGED <<inputVars, indir, phase, idx, game_name, innermost_file,
                   extractVars, verdict, fatal_seen, delete_choice>>

\* where the loop body goes when shutil.rmtree raises: line 260 is under the
\* try of the whole item, line 319 under a try of its own
AfterRmtreeFailure(loop) == IF loop = "bar" THEN "handler" ELSE "marker"

\* lines 260 and 318-322
RmTree ==
    /\ Looping /\ pc = "rmtree"
    /\ \/ /\ outdir' = RemoveTree(outdir, game_dir)
          /\ steps' = [steps EXCEPT !.rmtree = "ok"]
          /\ pc' = "marker"
       \/ /\ outdir' = outdir
          /\ steps' = [steps EXCEPT !.rmtree = "fail"]
          /\ pc' = AfterRmtreeFailure(phase)
    /\ UNCHANGED <<inputVars, indir, phase, idx, game_name, innermost_file,
                   extractVars, verdict, fatal_seen, delete_choice>>

\* lines 263-264 and 325-330
WriteMarker ==
    /\ Looping /\ pc = "marker"
    /\ \/ /\ outdir' = WriteMarkerFile(outdir, final_file_path)
          /\ steps' = [steps EXCEPT !.marker = "ok"]
          /\ pc' = "end"
       \/ /\ outdir' = outdir
          /\ steps' = [steps EXCEPT !.marker = "fail"]
          /\ pc' = IF phase = "bar" THEN "handler" ELSE "end"
    /\ UNCHANGED <<inputVars, indir, phase, idx, game_name, innermost_file,
                   extractVars, verdict, fatal_seen, delete_choice>>


\* lines 270-271 and 336-337: the handler of the item prints the archive
\* name; a UnicodeEncodeError raised by that print leaves the loop, to the
\* fallback loop from the progress-bar loop and out of main from the
\* fallback loop
Handler ==
    /\ Looping /\ pc = "handler"
    /\ \/ /\ Encodable(Archive)
          /\ pc' = "end"
          /\ UNCHANGED <<phase, idx, game_name, innermost_file, extractVars,
                         steps, verdict>>
       \/ /\ ~Encodable(Archive)
          /\ phase = "bar"
          /\ StartFallback
       \/ /\ ~Encodable(Archive)
          /\ phase = "fallback"
          /\ phase' = "crashed"
          /\ UNCHANGED <<idx, pc, game_name, innermost_file, extractVars,
                         steps, verdict>>
    /\ UNCHANGED <<inputVars, indir, outdir, fatal_seen, delete_choice>>

\* the body ran to the end of the branch of line 252 (294): in the
\* progress-bar loop every exception leaves it, in the fallback loop the
\* failures of rmtree and of the marker write are caught inside it
ReachedEndOfSuccessPath(loop, st) ==
    IF loop = "bar" THEN st.marker = "ok" ELSE st.marker \in {"ok", "fail"}

\* the for statement takes the next archive, or the loop ends and line 339
\* is reached
Advance ==
    /\ IF idx < Len(archive_files)
       THEN /\ idx' = idx + 1
            /\ pc' = "start"
            /\ phase' = phase
       ELSE /\ idx' = idx
            /\ pc' = "prompt"
            /\ phase' = "prompt"
    /\ game_name' = <<>>
    /\ innermost_file' = None
    /\ extractors' = <<>>
    /\ probed' = NotProbed
    /\ ex_i' = 0
    /\ calls' = <<>>
    /\ ex_ret' = "none"
    /\ steps' = NoSteps
    /\ verdict' = [verdict EXCEPT ![idx] = IF ReachedEndOfSuccessPath(phase, steps)
                                           THEN "done" ELSE "error"]

\* line 273: bar(), and the end of the body of the fallback loop
EndItem ==
    /\ Looping /\ pc = "end"
    /\ Advance
    /\ UNCHANGED <<inputVars, indir, outdir, fatal_seen, delete_choice>>

\* line 348 testing that an answer was given instead of which one
DeleteRequested_AnyAnswer(answer) == answer \in {"Y", "N"}

\* line 348
DeleteRequested(answer) == answer = "Y"

\* lines 342-348: the prompt is repeated until the answer is Y or N
Prompt ==
    /\ phase = "prompt"
    /\ \E answer \in {"Y", "N", "?"} :
          /\ delete_choice' = answer
          /\ IF answer \in {"Y", "N"}
             THEN /\ phase' = IF DeleteRequested(answer) THEN "deleting" ELSE "exit"
                  /\ idx' = 1
             ELSE UNCHANGED <<phase, idx>>
    /\ UNCHANGED <<inputVars, indir, outdir, pc, game_name, innermost_file,
                   extractVars, steps, verdict, fatal_seen>>

\* lines 349-354: os.remove of each archive of the list; the first failure
\* ends the loop
Delete ==
    /\ phase = "deleting"
    /\ \/ /\ idx <= Len(archive_files)
          /\ indir' = indir \ {archive_files[idx]}
          /\ idx' = idx + 1
          /\ phase' = phase
       \/ /\ idx <= Len(archive_files)
          /\ phase' = "exit"
          /\ UNCHANGED <<indir, idx>>
       \/ /\ idx > Len(archive_files)
          /\ phase' = "exit"
          /\ UNCHANGED <<indir, idx>>
    /\ UNCHANGED <<inputVars, outdir, pc, game_name, innermost_file,
                   extractVars, steps, verdict, fatal_seen, delete_choice>>

Next ==
    \/ EnterBar
    \/ EnterBarRaises
    \/ StartItem
    \/ MakeDirs
    \/ Resolve
    \/ InvokeBackend
    \/ Find
    \/ Move
    \/ Copy
    \/ Remove
    \/ RmTree
    \/ WriteMarker
    \/ Handler
    \/ EndItem
    \/ Prompt
    \/ Delete

Spec == Init /\ [][Next]_vars


(***************************************************************************)
(* extract_archive called on its own, with an empty destination.           *)
(***************************************************************************)
InitExtract ==
    /\ mode = "extract"
    /\ CleanIdle
    /\ choice = 2
    /\ platform \in {"win32", "linux"}
    /\ archive_files = <<A_rar>>
    /\ indir = {A_rar}
    /\ game_name = <<"a">>
    /\ outdir = Put(NoEntries, <<"a">> \o TEMP, DirOf({}))
    /\ phase = "call"
    /\ idx = 1
    /\ pc = "resolve"
    /\ innermost_file = None
    /\ extractors = <<>>
    /\ probed = NotProbed
    /\ ex_i = 0
    /\ calls = <<>>
    /\ ex_ret = "none"
    /\ steps = NoSteps
    /\ verdict = [i \in 1..Len(archive_files) |-> "pending"]
    /\ fatal_seen = FALSE
    /\ delete_choice = ""
    /\ walked = <<>>
    /\ bar_result = NoResult

NextExtract ==
    \/ Resolve
    \/ InvokeBackend

SpecExtract == InitExtract /\ [][NextExtract]_vars

\* extract_archive runs in one thread that is never suspended for good: a
\* step that can be taken is taken
SpecExtractFair == SpecExtract /\ WF_vars(NextExtract)


(***************************************************************************)
(* clean_filename called on its own.                                       *)
(***************************************************************************)
\* the characters of the stems: a letter, the space, the three characters
\* strip removes, the two path separators, two whitespace controls and a
\* control that is no whitespace
StemChars == {"a", " ", "_", "-", ".", "/", "\\", "TAB", "LF", "NUL"}
Stems == UNION {[1..n -> StemChars] : n \in 0..MaxLen}
\* what follows the stem: nothing, an extension in either case, or a letter,
\* which keeps the end of the stem away from the strip of line 159
Suffixes == {<<>>, <<".", "z", "i", "p">>, <<".", "R", "A", "R">>, <<"a">>}
Filenames == {stem \o suffix : stem \in Stems, suffix \in Suffixes}

MainIdle ==
    /\ choice = 2
    /\ platform = "linux"
    /\ archive_files = <<>>
    /\ indir = {}
    /\ outdir = NoEntries
    /\ phase = "idle"
    /\ idx = 0
    /\ pc = "idle"
    /\ game_name = <<>>
    /\ innermost_file = None
    /\ extractors = <<>>
    /\ probed = NotProbed
    /\ ex_i = 0
    /\ calls = <<>>
    /\ ex_ret = "none"
    /\ steps = NoSteps
    /\ verdict = <<>>
    /\ fatal_seen = FALSE
    /\ delete_choice = ""
    /\ walked = <<>>
    /\ bar_result = NoResult

InitClean ==
    /\ mode = "clean"
    /\ cf_filename \in Filenames
    /\ cf_choice \in 1..4
    /\ cf_result = <<>>
    /\ cf_pc = "call"
    /\ MainIdle

\* lines 119-161, with the policy the menu choice stands for
CleanCall ==
    /\ cf_pc = "call"
    /\ cf_result' = Sanitize(cf_filename, cf_choice)
    /\ cf_pc' = "returned"
    /\ UNCHANGED <<mode, cf_filename, cf_choice, mainVars, bar_result>>

NextClean == CleanCall

SpecClean == InitClean /\ [][NextClean]_vars


(***************************************************************************)
(* find_innermost_file called on its own.                                  *)
(***************************************************************************)
\* the k-th file os.walk yields; the label tells it from the other files
\* of the tree
WalkFile(k, d) == FileRec(<<"p">>, <<"f1", "f2", "f3", "f4", "f5", "f6">>[k], d)

\* os.walk is top-down: the files of the root directory come first, then
\* those of each subtree in turn, so the depths after the root's files go
\* up and down freely
WalkDepths(n) ==
    {d \in [1..n -> 0..MaxLevels] : \A j, k \in 1..n : (j < k /\ d[k] = 0) => d[j] = 0}

Walks ==
    UNION {{[k \in 1..n |-> WalkFile(k, ds[k])] : ds \in WalkDepths(n)} : n \in 0..MaxWalk}

InitLocate ==
    /\ mode = "locate"
    /\ CleanIdle
    /\ walked \in Walks
    /\ bar_result = NoResult
    /\ choice = 2
    /\ platform = "linux"
    /\ archive_files = <<>>
    /\ indir = {}
    /\ outdir = NoEntries
    /\ phase = "idle"
    /\ idx = 0
    /\ pc = "call"
    /\ game_name = <<>>
    /\ innermost_file = None
    /\ extractors = <<>>
    /\ probed = NotProbed
    /\ ex_i = 0
    /\ calls = <<>>
    /\ ex_ret = "none"
    /\ steps = NoSteps
    /\ verdict = <<>>
    /\ fatal_seen = FALSE
    /\ delete_choice = ""

\* lines 102-117
LocateCall ==
    /\ mode = "locate" /\ pc = "call"
    /\ innermost_file' = find_innermost_file(walked)
    /\ pc' = "returned"
    /\ UNCHANGED <<inputVars, indir, outdir, phase, idx, game_name,
                   extractVars, steps, verdict, fatal_seen, delete_choice>>

NextLocate == LocateCall

SpecLocate == InitLocate /\ [][NextLocate]_vars


(***************************************************************************)
(* The body of the progress-bar loop, then the body of the fallback loop,  *)
(* on the same archive and from the same empty output directory.           *)
(***************************************************************************)
InitPair ==
    /\ mode = "pair"
    /\ CleanIdle
    /\ choice = 2
    /\ platform = "linux"
    /\ archive_files = <<A_zip>>
    /\ indir = {A_zip}
    /\ outdir = NoEntries
    /\ phase = "bar"
    /\ idx = 1
    /\ pc = "start"
    /\ game_name = <<>>
    /\ innermost_file = None
    /\ extractors = <<>>
    /\ probed = NotProbed
    /\ ex_i = 0
    /\ calls = <<>>
    /\ ex_ret = "none"
    /\ steps = NoSteps
    /\ verdict = <<"pending">>
    /\ fatal_seen = FALSE
    /\ delete_choice = ""
    /\ walked = <<>>
    /\ bar_result = NoResult

\* the end of the body (line 273, and after line 337): what the
\* progress-bar loop left is kept and the fallback loop takes the archive
\* from an empty output directory; after the fallback loop nothing more runs
PairEnd ==
    /\ mode = "pair" /\ Looping /\ pc = "end"
    /\ LET v == IF ReachedEndOfSuccessPath(phase, steps) THEN "done" ELSE "error"
       IN  IF phase = "bar"
           THEN /\ bar_result' = [steps |-> steps, outdir |-> outdir, verdict |-> v]
                /\ outdir' = NoEntries
                /\ StartFallback
           ELSE /\ phase' = "compared"
                /\ verdict' = [verdict EXCEPT ![idx] = v]
                /\ UNCHANGED <<bar_result, outdir, idx, pc, game_name, innermost_file,
                               extractVars, steps>>
    /\ UNCHANGED <<mode, cleanVars, choice, platform, archive_files, walked,
                   indir, fatal_seen, delete_choice>>

NextPair ==
    \/ StartItem
    \/ MakeDirs
    \/ Resolve
    \/ InvokeBackend
    \/ Find
    \/ Move
    \/ Copy
    \/ Remove
    \/ RmTree
    \/ WriteMarker
    \/ Handler
    \/ PairEnd

SpecPair == InitPair /\ [][NextPair]_vars


(***************************************************************************)
(* Properties.                                                             *)
(***************************************************************************)
\* the rank of a backend: unrar, then 7z, then unzip, then the library
Rank(name) ==
    CASE name = "unrar" -> 1
      [] name = "7z" -> 2
      [] name = "unzip" -> 3
      [] name = "patoolib" -> 4

Failures == {"nonzero", "exception", "timeout"}
LastCall == calls[Len(calls)]

\* C1: extract_archive invokes the resolved backends in rank order, a
\* backend only after every higher-ranked one was invoked and failed
\* (non-zero exit, exception or timeout); a backend that succeeds is the
\* last one invoked and extract_archive then returns True.
C1_RankOrder ==
    /\ \A j, k \in 1..Len(extractors) : j < k => Rank(extractors[j]) < Rank(extractors[k])
    /\ Len(calls) <= Len(extractors)
    /\ \A k \in 1..Len(calls) : calls[k].name = extractors[k]
    /\ \A k \in 1..(Len(calls) - 1) : calls[k].outcome \in Failures
    /\ ex_ret = "True" => (calls # <<>> /\ LastCall.outcome = "ok")
    /\ (calls # <<>> /\ LastCall.outcome = "ok") => (ex_ret = "True" /\ pc # "backend")

\* the second of three backends succeeded after the first failed, and the
\* third was not invoked
C1_Witness ==
    /\ mode = "extract"
    /\ ex_ret = "True"
    /\ Len(extractors) = 3
    /\ Len(calls) = 2

\* C2: with a non-empty backend list of which every backend fails,
\* extract_archive returns False: the failure of a backend, whatever its
\* kind and position, never leaves extract_archive as an exception.
C2_AllFailReturnsFalse ==
    /\ ex_ret # "Exception"
    /\ (pc = "returned" /\ extractors # <<>> /\ \A k \in 1..Len(calls) : calls[k].outcome # "ok")
          => ex_ret = "False"

\* three backends failed, by timeout, by exit code and by exception, and
\* extract_archive returned False
C2_Witness ==
    /\ mode = "extract"
    /\ pc = "returned"
    /\ ex_ret = "False"
    /\ Len(calls) = 3
    /\ calls[1].outcome = "timeout"
    /\ calls[2].outcome = "nonzero"
    /\ calls[3].outcome = "exception"

\* C3: when a backend succeeds after a higher-ranked one failed, the
\* destination holds only files the successful backend wrote.
C3_OnlyWinnerFiles ==
    (mode = "extract" /\ ex_ret = "True" /\ Len(calls) >= 2)
        => \A f \in outdir[game_dir].files : f.by = LastCall.name

\* every step of the item being processed succeeded
OwnStepsSucceeded ==
    /\ steps.makedirs = "ok"
    /\ steps.extract = "ok"
    /\ steps.locate = "ok"
    /\ steps.move = "ok" \/ (steps.copy = "ok" /\ steps.remove = "ok")
    /\ steps.rmtree = "ok"
    /\ steps.marker = "ok"

\* C4: whatever an item fails at, every later item is attempted, and a
\* later item whose own steps succeed ends with its file and its marker in
\* the output directory, in both loops.
C4_Isolation ==
    /\ (mode = "main" /\ ~Looping)
          => \A i \in 1..Len(archive_files) : verdict[i] # "pending"
    /\ (Looping /\ pc = "end" /\ OwnStepsSucceeded
           /\ \E i \in 1..(idx - 1) : verdict[i] = "error")
          => (IsFile(outdir, final_file_path) /\ IsFile(outdir, final_file_path \o MARKER))

IsMarker(fs, p) == EndsWith(p, MARKER) /\ IsFile(fs, p) /\ fs[p].content[1] = "text"
MarkedName(p) == SubSeq(p, 1, Len(p) - Len(MARKER))
IsPayloadFile(fs, p) == IsFile(fs, p) /\ fs[p].content[1] = "payload"

\* C5: in every state of a batch, a marker file <name>.xbox360 of the
\* output directory has the regular file <name>, holding a relocated
\* payload, beside it.  (Stated for the non-empty names; C9 is about the
\* empty one.)
C5_NoOrphanMarker ==
    \A p \in DOMAIN outdir :
        (IsMarker(outdir, p) /\ MarkedName(p) # <<>>) => IsPayloadFile(outdir, MarkedName(p))

\* C6: when every step of an item has succeeded, the output directory holds
\* the file named by the sanitized name with the bytes of the located file
\* and the marker with the sanitized name as text, and the scratch
\* directory of the item is gone.
C6_TwoEntries ==
    (Looping /\ pc = "end" /\ OwnStepsSucceeded)
        => /\ IsFile(outdir, final_file_path)
           /\ outdir[final_file_path].content
                 = <<"payload", innermost_file.src, innermost_file.by>>
           /\ IsFile(outdir, final_file_path \o MARKER)
           /\ outdir[final_file_path \o MARKER].content = <<"text", game_name>>
           /\ ~Exists(outdir, game_dir)

\* C7: while the batch is processed no archive leaves the input directory,
\* whatever the items' outcomes; archives are removed only in the deletion
\* phase after the batch, and only when the answer was Y.
C7_ArchivesKept ==
    /\ phase \in {"bar", "fallback", "prompt", "crashed"} => indir = Range(archive_files)
    /\ delete_choice # "Y" => indir = Range(archive_files)

\* a batch of two archives that left a marker, then the answer Y and the
\* deletion of both archives
C7_Witness ==
    /\ phase = "exit"
    /\ delete_choice = "Y"
    /\ Len(archive_files) = 2
    /\ indir = {}
    /\ \E p \in DOMAIN outdir : IsMarker(outdir, p)

\* C8: once extract_archive has raised for want of any backend, the run is
\* aborted: the error is not absorbed as the failure of one item, no
\* further archive is taken and the run does not reach its normal end.
C8_FatalAborts ==
    (mode = "main" /\ fatal_seen)
        => \/ Looping /\ pc = "handler" /\ ex_ret = "RuntimeError"
           \/ phase = "crashed"

\* C9: an item whose sanitized name is empty goes to the error state before
\* extraction: no scratch directory is created for it, no backend invoked,
\* nothing moved into the output directory and no marker written.
C9_EmptyNameIsError ==
    (Looping /\ pc \notin {"enter", "start"} /\ game_name = <<>>)
        => /\ ~Exists(outdir, TEMP)
           /\ calls = <<>>
           /\ ~Exists(outdir, PayloadName)
           /\ ~Exists(outdir, MARKER)

\* C10: under each of the four policies the output of clean_filename holds
\* no path separator and no control character.
C10_NoSeparatorNoControl ==
    cf_pc = "returned"
        => \A k \in 1..Len(cf_result) : cf_result[k] \notin (PathSeparators \cup ControlChars)

\* C11: under every policy whose replacement character is not empty, the
\* output of clean_filename never holds that character twice in a row, also
\* when the input has it next to a space or a disallowed character.
C11_NoDoubleReplacement ==
    (cf_pc = "returned" /\ SpaceReplacement(cf_choice) # <<>>)
        => \A k \in 1..(Len(cf_result) - 1) :
              ~(/\ cf_result[k] = SpaceReplacement(cf_choice)[1]
                /\ cf_result[k + 1] = SpaceReplacement(cf_choice)[1])

\* an underscore of the input followed by a disallowed character, inside the
\* name, came out as one underscore
C11_Witness ==
    /\ cf_pc = "returned"
    /\ cf_choice = 2
    /\ cf_filename = <<"a", "_", "/", "a">>
    /\ cf_result = <<"a", "_", "a">>

\* C12: find_innermost_file returns None exactly when the tree holds no
\* file; otherwise it returns a file of the greatest depth in the tree, and
\* of several files at that depth the one the traversal yields first.
C12_DeepestFirst ==
    (mode = "locate" /\ pc = "returned")
        => /\ (innermost_file = None) <=> (walked = <<>>)
           /\ walked # <<>>
                 => \E k \in 1..Len(walked) :
                       /\ innermost_file = walked[k]
                       /\ \A j \in 1..Len(walked) : walked[j].dirs <= walked[k].dirs
                       /\ \A j \in 1..(k - 1) : walked[j].dirs < walked[k].dirs

\* four files, the second and the fourth at the greatest depth with a
\* shallower one between them: the second was returned
C12_Witness ==
    /\ mode = "locate" /\ pc = "returned"
    /\ Len(walked) = 4
    /\ walked[1].dirs = 0 /\ walked[2].dirs = 2 /\ walked[3].dirs = 1 /\ walked[4].dirs = 2
    /\ innermost_file = walked[2]

\* the item being processed is over: its handler or the end of the body is
\* reached
ItemOver == Looping /\ pc \in {"handler", "end"}

\* C13: in both loops, a move that fails is followed by the attempt to copy
\* the file and delete the source, and the item fails only when both
\* strategies failed; when either succeeded the item goes on to the marker.
C13_CopyFallback ==
    /\ (ItemOver /\ steps.move = "fail") => steps.copy \in {"ok", "fail"}
    /\ (ItemOver /\ steps.move = "fail" /\ steps.copy = "ok" /\ steps.remove = "ok")
          => steps.marker \in {"ok", "fail"}

\* C14: in both loops, once the payload is relocated a failure to remove the
\* scratch directory does not end the item: the marker write is still
\* attempted and the item succeeds when the marker is written; and the
\* removal of the scratch directory is attempted whatever the marker write's
\* outcome.
C14_CleanupNotFatal ==
    /\ (ItemOver /\ steps.rmtree = "fail") => steps.marker \in {"ok", "fail"}
    /\ (ItemOver /\ steps.marker \in {"ok", "fail"}) => steps.rmtree \in {"ok", "fail"}

\* extraction failed for the item being processed, or found nothing to
\* locate
ExtractOrLocateFailed == Looping /\ (steps.extract = "fail" \/ steps.locate = "fail")

\* C15: when the extraction of an item fails, or succeeds and the locator
\* finds no file, the scratch directory of the item is still there and its
\* archive still in the input directory, and from then on the processing
\* of the item changes nothing in the output directory: no file is moved
\* or copied and no marker written.
C15_FailedItemFrame ==
    /\ [](ExtractOrLocateFailed
            => /\ IsDir(outdir, game_dir)
               /\ Archive \in indir
               /\ steps.move = "-" /\ steps.copy = "-" /\ steps.marker = "-")
    /\ [][ExtractOrLocateFailed => (outdir' = outdir /\ indir' = indir)]_vars

\* the only backend left a partial file and failed: the item is over with
\* that file in its scratch directory
C15_Witness ==
    /\ Looping /\ pc = "end"
    /\ steps.extract = "fail"
    /\ ex_ret = "False"
    /\ outdir[game_dir].files # {}

\* C16: a command-line backend is in the resolved list only if its probe
\* succeeded: tool not found, a timeout or a non-zero exit code keep it out,
\* and no outcome of a probe ends the resolution of the other backends.
C16_ProbeGate ==
    (mode = "extract" /\ probed # NotProbed)
        => /\ ex_ret # "OSError"
           /\ \A k \in 1..Len(extractors) :
                 extractors[k] # "patoolib" => probed[extractors[k]] = "ok"

\* C17: every invocation of a backend by extract_archive, of a command-line
\* tool or of the library, is bounded by a timeout that counts as a failure
\* of that backend, so that extract_archive returns in the end even when a
\* backend hangs.
C17_ExtractReturns == <>(mode = "extract" /\ pc = "returned")

\* C18: the scratch directory of an item is its own: it holds no file of
\* another item when the extraction of the item starts, and the file the
\* locator returns for the item comes from the item's own archive, also when
\* two archives have the same sanitized name or an earlier item failed and
\* left its scratch directory.
C18_OwnScratch ==
    /\ (Looping /\ pc = "resolve")
          => \A f \in outdir[game_dir].files : f.src = Archive
    /\ (Looping /\ innermost_file # None) => innermost_file.src = Archive

\* C20: in the deletion phase the answer N removes no archive; the answer Y
\* removes only archives of the list built at the start, and each archive
\* removed has its file in the output directory.
C20_DeleteOnlyDone ==
    (mode = "main" /\ phase \in {"deleting", "exit"})
        => /\ delete_choice = "N" => indir = Range(archive_files)
           /\ indir \subseteq Range(archive_files)
           /\ \A a \in Range(archive_files) \ indir :
                 IsPayloadFile(outdir, Sanitize(a, choice))

\* the outcomes of extraction, location, move, scratch removal and marker
\* write are the same in two runs of the loop body
SameOutcomes(s, t) ==
    /\ s.makedirs = t.makedirs
    /\ s.extract = t.extract
    /\ s.locate = t.locate
    /\ s.move = t.move
    /\ s.rmtree = t.rmtree
    /\ s.marker = t.marker

\* C19: the progress-bar loop and the fallback loop are the same pipeline:
\* run on the same item with the same outcomes of extraction, location,
\* move, scratch removal and marker write, they leave the same final file,
\* marker and scratch directory, present or absent, and the same verdict.
C19_LoopsAgree ==
    (mode = "pair" /\ phase = "compared" /\ SameOutcomes(bar_result.steps, steps))
        => /\ Exists(outdir, final_file_path) <=> Exists(bar_result.outdir, final_file_path)
           /\ Exists(outdir, final_file_path \o MARKER)
                 <=> Exists(bar_result.outdir, final_file_path \o MARKER)
           /\ Exists(outdir, game_dir) <=> Exists(bar_result.outdir, game_dir)
           /\ verdict[idx] = bar_result.verdict

====
